---- MODULE Spec2Model ----
(***************************************************************************)
(* Model of the prospect-research pipeline: RateLimiter.can_request,       *)
(* the retry_on_failure wrapper, validate_url and                          *)
(* ProspectWorkflow.process_company, with the threads that call it.        *)
(***************************************************************************)
EXTENDS Integers, Sequences, FiniteSets, TLC

(***************************************************************************)
(* Strings are sequences of one-character strings, so that the regular     *)
(* expression of validate_url and the split/replace of                     *)
(* _extract_company_name are computed on the characters.                   *)
(***************************************************************************)
LowerSeq ==
    <<"a","b","c","d","e","f","g","h","i","j","k","l","m",
      "n","o","p","q","r","s","t","u","v","w","x","y","z">>

UpperSeq ==
    <<"A","B","C","D","E","F","G","H","I","J","K","L","M",
      "N","O","P","Q","R","S","T","U","V","W","X","Y","Z">>

Range(f) == {f[i] : i \in DOMAIN f}

Digit == {"0","1","2","3","4","5","6","7","8","9"}

\* [A-Z] under re.IGNORECASE
Alpha == Range(LowerSeq) \cup Range(UpperSeq)

\* [A-Z0-9] under re.IGNORECASE
Alnum == Alpha \cup Digit

\* [A-Z0-9-] under re.IGNORECASE
AlnumDash == Alnum \cup {"-"}

\* the characters \S rejects
Whitespace == {" ", "\t", "\n", "\r"}

\* re.IGNORECASE: a literal of the pattern is compared on lower case
ToLower(c) ==
    IF \E i \in DOMAIN UpperSeq : UpperSeq[i] = c
    THEN LowerSeq[CHOOSE i \in DOMAIN UpperSeq : UpperSeq[i] = c]
    ELSE c

(***************************************************************************)
(* The matcher keeps the set of positions the pattern can have reached     *)
(* (position i: the next character to read is s[i]); the pattern matches   *)
(* when the end of the string is among them.                               *)
(***************************************************************************)
\* a literal w read from any position of P
Lit(s, P, w) ==
    {i + Len(w) : i \in {j \in P : /\ j + Len(w) - 1 <= Len(s)
                                   /\ \A k \in 1..Len(w) : ToLower(s[j + k - 1]) = w[k]}}

\* between lo and hi characters of the class C read from any position of P
Rep(s, P, C, lo, hi) ==
    {j \in 1..(Len(s) + 1) :
        \E i \in P : /\ j - i >= lo
                     /\ j - i <= hi
                     /\ \A k \in i..(j - 1) : s[k] \in C}

\* [A-Z0-9](?:[A-Z0-9-]{0,61}[A-Z0-9])?\.
LabelDot(s, P) ==
    LET first == Rep(s, P, Alnum, 1, 1)
        more  == Rep(s, Rep(s, first, AlnumDash, 0, 61), Alnum, 1, 1)
    IN  Lit(s, first \cup more, <<".">>)

\* (?:label\.)+ : the positions after one or more labels
RECURSIVE LabelsPlus(_, _, _)
LabelsPlus(s, acc, frontier) ==
    IF frontier = {} THEN acc
    ELSE LET new == LabelDot(s, frontier) \ acc
         IN  LabelsPlus(s, acc \cup new, new)

\* (?:[A-Z0-9](?:[A-Z0-9-]{0,61}[A-Z0-9])?\.)+[A-Z]{2,6}\.?
DomainHost(s, P) ==
    LET tld == Rep(s, LabelsPlus(s, {}, P), Alpha, 2, 6)
    IN  tld \cup Lit(s, tld, <<".">>)

\* localhost
LocalHost(s, P) == Lit(s, P, <<"l","o","c","a","l","h","o","s","t">>)

\* \d{1,3}\.\d{1,3}\.\d{1,3}\.\d{1,3}
Ipv4Host(s, P) ==
    LET a == Lit(s, Rep(s, P, Digit, 1, 3), <<".">>)
        b == Lit(s, Rep(s, a, Digit, 1, 3), <<".">>)
        c == Lit(s, Rep(s, b, Digit, 1, 3), <<".">>)
    IN  Rep(s, c, Digit, 1, 3)

\* the whole pattern, anchored at both ends; $ also matches before a final \n
validate_url(url) ==
    LET n      == Len(url)
        http   == Lit(url, {1}, <<"h","t","t","p">>)
        scheme == Lit(url, http \cup Lit(url, http, <<"s">>), <<":","/","/">>)
        host   == DomainHost(url, scheme) \cup LocalHost(url, scheme)
                      \cup Ipv4Host(url, scheme)
        port   == host \cup Rep(url, Lit(url, host, <<":">>), Digit, 1, n)
        slash  == port \cup Lit(url, port, <<"/">>)
        path   == Rep(url, Lit(url, port, <<"/">>) \cup Lit(url, port, <<"?">>),
                      (Range(url) \ Whitespace), 1, n)
        ends   == slash \cup path
    IN  \/ (n + 1) \in ends
        \/ n \in ends /\ n >= 1 /\ url[n] = "\n"

(***************************************************************************)
(* website_url.split("//")[-1].split("/")[0].replace("www.", "")           *)
(***************************************************************************)
Drop(s, k) == SubSeq(s, k + 1, Len(s))

StartsWith(s, w) == Len(s) >= Len(w) /\ SubSeq(s, 1, Len(w)) = w

\* split(sep)[-1]: what follows the last separator of a left-to-right scan
RECURSIVE SplitLast(_, _)
SplitLast(s, sep) ==
    IF \E i \in 1..Len(s) : StartsWith(Drop(s, i - 1), sep)
    THEN LET i == CHOOSE j \in 1..Len(s) :
                     /\ StartsWith(Drop(s, j - 1), sep)
                     /\ \A k \in 1..(j - 1) : ~StartsWith(Drop(s, k - 1), sep)
         IN  SplitLast(Drop(s, i - 1 + Len(sep)), sep)
    ELSE s

\* split(sep)[0]: what precedes the first separator
SplitFirst(s, sep) ==
    IF \E i \in 1..Len(s) : StartsWith(Drop(s, i - 1), sep)
    THEN LET i == CHOOSE j \in 1..Len(s) :
                     /\ StartsWith(Drop(s, j - 1), sep)
                     /\ \A k \in 1..(j - 1) : ~StartsWith(Drop(s, k - 1), sep)
         IN  SubSeq(s, 1, i - 1)
    ELSE s

\* replace(old, ""): every occurrence of a left-to-right scan removed
RECURSIVE Remove(_, _)
Remove(s, old) ==
    IF s = <<>> THEN <<>>
    ELSE IF StartsWith(s, old) THEN Remove(Drop(s, Len(old)), old)
    ELSE <<s[1]>> \o Remove(Drop(s, 1), old)

company_name_of(url) ==
    Remove(SplitFirst(SplitLast(url, <<"/","/">>), <<"/">>), <<"w","w","w",".">>)

(***************************************************************************)
(* Program constants and the bounds of the model.                          *)
(***************************************************************************)
\* RateLimiter(max_requests=5, time_window=60) of ProspectWorkflow.__init__
max_requests == 5

time_window == 60

\* retry_on_failure(max_attempts: int = 3, delay: int = 1)
DefaultMaxAttempts == 3

DefaultDelay == 1

\* process_company invocations of a run with one calling thread
MaxCalls == 6

\* process_company invocations of a run with two calling threads
MaxConcCalls == 2

\* process_company invocations of a run that starts with filled windows
MaxLoadedCalls == 1

\* calls of the wrapped operation of a run of the retry wrapper alone
MaxRetryCalls == 2

\* largest max_attempts and delay the retry wrapper is tried with
MaxAttemptsBound == 4

MaxDelayBound == 2
\* calls of the runs checked for termination
MaxLiveCalls == 2

\* the threads that invoke process_company on the one ProspectWorkflow
Procs == {"t1", "t2"}

None == "None"

EmptyMap == [k \in {} |-> None]

\* the URLs of the callers
UrlEmpty == <<>>

UrlNotAUrl == <<"n","o","t","-","a","-","u","r","l">>

UrlExample == <<"h","t","t","p","s",":","/","/","e","x",".","c","o">>

UrlWww == <<"h","t","t","p",":","/","/","w","w","w",".","e","x",".","c","o","/","a">>

Urls == {UrlEmpty, UrlNotAUrl, UrlExample, UrlWww}

\* the name process_company passes to can_request
ExtractorName == "DataExtractor"

\* the keys of the dict extract_website_data returns
WebsiteKeys == {"description", "products", "team", "social_links"}

\* the keys of the dict enrich_with_apis returns, in the order of the dict
EnrichOrder == <<"crunchbase", "linkedin", "news">>

EnrichSources == Range(EnrichOrder)

\* the fields of the CompanyData dataclass
CompanyFields ==
    {"name", "description", "industry", "products", "team", "news",
     "social_media", "metrics"}

\* the order in which the keywords reach CompanyData: name, the keys of
\* website_data, the keys of enriched_data (fields no dict of the code
\* returns come last)
KeyOrder ==
    <<"name", "description", "industry", "products", "team", "social_links",
      "crunchbase", "linkedin", "news", "social_media", "metrics">>

VARIABLES
    now,          \* the clock datetime.now() and time.sleep read, in seconds
    budget,       \* invocations the callers may still start
    threads,      \* the threads that call process_company
    urls,         \* the URLs the callers pass
    max_attempts, \* the retry wrapper's max_attempts
    delay,        \* the retry wrapper's delay
    requests,     \* RateLimiter.requests: name -> deque of timestamps
    pc,           \* where each thread is
    op,           \* the operation the retry wrapper wraps for the thread
    url,          \* website_url
    attempt,      \* the wrapper's loop variable
    wake,         \* when the thread's time.sleep ends
    exc,          \* the exception the wrapped operation raised last
    last_error,   \* the wrapper's last_error
    outcome,      \* what the wrapper gave its caller
    crNow,        \* can_request's local now
    website_data, \* process_company's locals
    company_name,
    tasks,        \* the futures of enrich_with_apis
    enriched_data,
    calls,        \* history: the stages this invocation has called
    bodyRuns,     \* history: executions of the wrapped operation
    fails,        \* history: executions that raised
    delays,       \* history: the sleeps of this invocation
    denied,       \* history: can_request returned False in this invocation
    fetchFailed,  \* history: requests.get failed in this attempt
    over,         \* history: max_requests valid calls preceded this one
    reqLog,       \* history: times of the latest extraction requests
    callLog,      \* history: start times of the latest calls with a valid URL
    crWindow,     \* history: the window can_request found when it was called
    arrival       \* history: the enrichment sources in the order their tasks ended

vars ==
    <<now, budget, threads, urls, max_attempts, delay, requests, pc, op, url,
      attempt, wake, exc, last_error, outcome, crNow, website_data,
      company_name, tasks, enriched_data, calls, bodyRuns, fails, delays,
      denied, fetchFailed, over, reqLog, callLog, crWindow, arrival>>

\* the configuration of a run, fixed at Init
config == <<threads, urls, max_attempts, delay>>

\* the locals of the pipeline body
locals == <<website_data, company_name, tasks, enriched_data>>

\* the state of the retry wrapper
retry == <<attempt, wake, last_error, delays>>

\* the histories only the pipeline writes
logs == <<reqLog, callLog, over, crWindow, arrival>>

NoTasks == [s \in EnrichSources |-> "none"]

\* an exception: its type, its message, and the execution that raised it
NamedError(type, msg, names, run) ==
    [type |-> type, msg |-> msg, names |-> names, run |-> run]

\* an exception whose message names nothing
Error(type, msg, run) == NamedError(type, msg, {}, run)

Raised(e) == [kind |-> "raised", error |-> e]

Returned(v) == [kind |-> "returned", value |-> v]

\* a history of timestamps keeps its latest n entries
Latest(log, n) == IF Len(log) > n THEN SubSeq(log, Len(log) - n + 1, Len(log)) ELSE log

\* entries of a history not older than time_window at time t
Within(log, t) == Cardinality({i \in DOMAIN log : t - log[i] <= time_window})

NoError == [type |-> None, msg |-> None, names |-> {}, run |-> 0]

NoOutcome == [kind |-> None]

(***************************************************************************)
(* The state after ProspectWorkflow.__init__: the limiter has no window,   *)
(* no thread is inside process_company.                                    *)
(***************************************************************************)
InitThreads ==
    /\ pc = [p \in Procs |-> "idle"]
    /\ op = [p \in Procs |-> None]
    /\ url = [p \in Procs |-> <<>>]
    /\ attempt = [p \in Procs |-> 0]
    /\ wake = [p \in Procs |-> 0]
    /\ exc = [p \in Procs |-> NoError]
    /\ last_error = [p \in Procs |-> NoError]
    /\ outcome = [p \in Procs |-> NoOutcome]
    /\ crNow = [p \in Procs |-> 0]
    /\ website_data = [p \in Procs |-> EmptyMap]
    /\ company_name = [p \in Procs |-> <<>>]
    /\ tasks = [p \in Procs |-> NoTasks]
    /\ enriched_data = [p \in Procs |-> EmptyMap]
    /\ calls = [p \in Procs |-> {}]
    /\ bodyRuns = [p \in Procs |-> 0]
    /\ fails = [p \in Procs |-> 0]
    /\ delays = [p \in Procs |-> <<>>]
    /\ denied = [p \in Procs |-> FALSE]
    /\ fetchFailed = [p \in Procs |-> FALSE]
    /\ over = [p \in Procs |-> FALSE]
    /\ reqLog = <<>>
    /\ callLog = <<>>
    /\ crWindow = [p \in Procs |-> <<>>]
    /\ arrival = [p \in Procs |-> <<>>]

Init ==
    /\ InitThreads
    /\ now = 0
    /\ budget = MaxCalls
    /\ threads = {"t1"}
    /\ urls = Urls
    /\ max_attempts = DefaultMaxAttempts
    /\ delay = DefaultDelay
    /\ requests = EmptyMap

(***************************************************************************)
(* retry_on_failure: the wrapper around process_company.                   *)
(***************************************************************************)
\* a caller invokes workflow.process_company(u): the wrapper's loop starts
Call(p, u) ==
    /\ p \in threads
    /\ u \in urls
    /\ pc[p] = "idle"
    /\ budget > 0
    /\ budget' = budget - 1
    /\ pc' = [pc EXCEPT ![p] = "body"]
    /\ op' = [op EXCEPT ![p] = "process_company"]
    /\ url' = [url EXCEPT ![p] = u]
    /\ attempt' = [attempt EXCEPT ![p] = 0]
    /\ last_error' = [last_error EXCEPT ![p] = NoError]
    /\ over' = [over EXCEPT ![p] = validate_url(u) /\ Within(callLog, now) >= max_requests]
    /\ callLog' = IF validate_url(u) THEN Latest(Append(callLog, now), max_requests)
                  ELSE callLog
    /\ UNCHANGED <<now, config, requests, wake, exc, outcome, crNow, locals,
                   calls, bodyRuns, fails, delays, denied, fetchFailed, reqLog,
                   crWindow, arrival>>

\* the wrapped operation raised e: the body's "except Exception ... raise"
\* passes it on, performance_monitor lets it through; the body's frame and
\* its locals are gone
Raise(p, e) ==
    /\ pc' = [pc EXCEPT ![p] = "raised"]
    /\ exc' = [exc EXCEPT ![p] = e]
    /\ fails' = [fails EXCEPT ![p] = @ + 1]
    /\ website_data' = [website_data EXCEPT ![p] = EmptyMap]
    /\ company_name' = [company_name EXCEPT ![p] = <<>>]
    /\ tasks' = [tasks EXCEPT ![p] = NoTasks]
    /\ enriched_data' = [enriched_data EXCEPT ![p] = EmptyMap]
    /\ fetchFailed' = [fetchFailed EXCEPT ![p] = FALSE]

\* a wrapper that keeps the first error it caught instead of the last
CaughtFirst(p) == IF last_error[p] = NoError THEN exc[p] ELSE last_error[p]

\* last_error = e
CaughtError(p) == exc[p]

\* if attempt < max_attempts - 1
SleepsAfter(a) == a < max_attempts - 1

\* a wrapper that sleeps the same delay after every failure
BackoffFlat(a) == delay

\* delay * (attempt + 1)
Backoff(a) == delay * (a + 1)

\* a loop that has no last round
LastRoundNever(a) == FALSE

\* for attempt in range(max_attempts): a was the last round
LastRound(a) == a + 1 >= max_attempts

\* return func(*args, **kwargs)
WrapperReturn(v) == v

\* the next round of the loop calls the operation again; after the last round
\* raise last_error
NextRound(p, err) ==
    IF LastRound(attempt[p])
    THEN /\ pc' = [pc EXCEPT ![p] = "done"]
         /\ outcome' = [outcome EXCEPT ![p] = Raised(err)]
         /\ UNCHANGED attempt
    ELSE /\ pc' = [pc EXCEPT ![p] = IF op[p] = "func" THEN "func" ELSE "body"]
         /\ attempt' = [attempt EXCEPT ![p] = @ + 1]
         /\ UNCHANGED outcome

\* except Exception as e: keep it, and sleep unless this was the last round
RetryCatch(p) ==
    /\ pc[p] = "raised"
    /\ last_error' = [last_error EXCEPT ![p] = CaughtError(p)]
    /\ IF SleepsAfter(attempt[p])
       THEN /\ pc' = [pc EXCEPT ![p] = "sleep"]
            /\ wake' = [wake EXCEPT ![p] = now + Backoff(attempt[p])]
            /\ delays' = [delays EXCEPT ![p] = Append(@, Backoff(attempt[p]))]
            /\ UNCHANGED <<outcome, attempt>>
       ELSE /\ NextRound(p, CaughtError(p))
            /\ UNCHANGED <<wake, delays>>
    /\ UNCHANGED <<now, budget, config, requests, op, url, exc, crNow,
                   locals, calls, bodyRuns, fails, denied, fetchFailed, logs>>

\* time.sleep returns
SleepDone(p) ==
    /\ pc[p] = "sleep"
    /\ now >= wake[p]
    /\ NextRound(p, last_error[p])
    /\ UNCHANGED <<now, budget, config, requests, op, url, wake, exc, last_error,
                   crNow, locals, calls, bodyRuns, fails, delays, denied,
                   fetchFailed, logs>>

\* the caller has its result or its exception; the thread is free again
Finish(p) ==
    /\ pc[p] = "done"
    /\ pc' = [pc EXCEPT ![p] = "idle"]
    /\ op' = [op EXCEPT ![p] = None]
    /\ url' = [url EXCEPT ![p] = <<>>]
    /\ attempt' = [attempt EXCEPT ![p] = 0]
    /\ wake' = [wake EXCEPT ![p] = 0]
    /\ exc' = [exc EXCEPT ![p] = NoError]
    /\ last_error' = [last_error EXCEPT ![p] = NoError]
    /\ outcome' = [outcome EXCEPT ![p] = NoOutcome]
    /\ crNow' = [crNow EXCEPT ![p] = 0]
    /\ website_data' = [website_data EXCEPT ![p] = EmptyMap]
    /\ company_name' = [company_name EXCEPT ![p] = <<>>]
    /\ tasks' = [tasks EXCEPT ![p] = NoTasks]
    /\ enriched_data' = [enriched_data EXCEPT ![p] = EmptyMap]
    /\ calls' = [calls EXCEPT ![p] = {}]
    /\ bodyRuns' = [bodyRuns EXCEPT ![p] = 0]
    /\ fails' = [fails EXCEPT ![p] = 0]
    /\ delays' = [delays EXCEPT ![p] = <<>>]
    /\ denied' = [denied EXCEPT ![p] = FALSE]
    /\ fetchFailed' = [fetchFailed EXCEPT ![p] = FALSE]
    /\ over' = [over EXCEPT ![p] = FALSE]
    /\ crWindow' = [crWindow EXCEPT ![p] = <<>>]
    /\ UNCHANGED <<now, budget, config, requests, reqLog, callLog, arrival>>

\* a second of time.sleep passes; the statements between two sleeps take no
\* time of the model, so the clock moves when no thread has a statement to run
Tick ==
    /\ \E p \in threads : pc[p] = "sleep" /\ now < wake[p]
    /\ \A p \in threads : pc[p] \in {"idle", "sleep", "done"}
    /\ now' = now + 1
    /\ UNCHANGED <<budget, config, requests, pc, op, url, attempt, wake, exc, last_error,
                   outcome, crNow, locals, calls, bodyRuns, fails, delays, denied,
                   fetchFailed, logs>>

(***************************************************************************)
(* ProspectWorkflow.process_company: the pipeline body, one action per     *)
(* statement that calls out or can raise.                                  *)
(***************************************************************************)
\* the body is entered; if not website_url: raise ValueError
BodyStart(p) ==
    /\ pc[p] = "body"
    /\ bodyRuns' = [bodyRuns EXCEPT ![p] = @ + 1]
    /\ IF url[p] = <<>>
       THEN Raise(p, Error("ValueError", "Website URL is required", bodyRuns[p] + 1))
       ELSE /\ pc' = [pc EXCEPT ![p] = "cr_enter"]
            /\ UNCHANGED <<exc, fails, locals, fetchFailed>>
    /\ UNCHANGED <<now, budget, config, requests, op, url, retry, outcome, crNow,
                   calls, denied, logs>>

\* a window that is created with a timestamp in it
NewWindowStamped == <<0>>

\* self.requests[api_name] = deque()
NewWindow == <<>>

\* RateLimiter.can_request: now = datetime.now(); the window is created if absent
CanRequestEnter(p) ==
    /\ pc[p] = "cr_enter"
    /\ crNow' = [crNow EXCEPT ![p] = now]
    /\ requests' = [n \in DOMAIN requests \cup {ExtractorName} |->
                       IF n \in DOMAIN requests THEN requests[n] ELSE NewWindow]
    /\ crWindow' = [crWindow EXCEPT ![p] = requests'[ExtractorName]]
    /\ calls' = [calls EXCEPT ![p] = @ \cup {"can_request"}]
    /\ pc' = [pc EXCEPT ![p] = "cr_test"]
    /\ UNCHANGED <<now, budget, config, op, url, retry, exc, outcome, locals,
                   bodyRuns, fails, denied, fetchFailed, reqLog, callLog, over,
                   arrival>>

\* a pruning that also removes the entries exactly time_window old
ExpiredAtBoundary(t, stamp) == t - stamp >= time_window

\* now - self.requests[api_name][0] > timedelta(seconds=self.time_window)
Expired(t, stamp) == t - stamp > time_window

\* the while loop: its test, and its popleft, which another thread's popleft
\* may have run ahead of
CanRequestPrune(p) ==
    /\ pc[p] \in {"cr_test", "cr_pop"}
    /\ LET w == requests[ExtractorName]
       IN  IF pc[p] = "cr_test"
           THEN /\ pc' = [pc EXCEPT ![p] =
                             IF w # <<>> /\ Expired(crNow[p], w[1])
                             THEN "cr_pop" ELSE "cr_ret"]
                /\ UNCHANGED <<requests, exc, fails, locals, fetchFailed>>
           ELSE IF w = <<>>
                THEN /\ Raise(p, Error("IndexError", "pop from an empty deque", bodyRuns[p]))
                     /\ UNCHANGED requests
                ELSE /\ requests' = [requests EXCEPT ![ExtractorName] = Tail(w)]
                     /\ pc' = [pc EXCEPT ![p] = "cr_test"]
                     /\ UNCHANGED <<exc, fails, locals, fetchFailed>>
    /\ UNCHANGED <<now, budget, config, op, url, retry, outcome, crNow,
                   calls, bodyRuns, denied, logs>>

\* return len(self.requests[api_name]) < self.max_requests
Admits(w) == Len(w) < max_requests

\* if not self.rate_limiter.can_request("DataExtractor"): raise RuntimeError
RateCheckPasses(admitted) == admitted

CanRequestReturn(p) ==
    /\ pc[p] = "cr_ret"
    /\ LET admitted == Admits(requests[ExtractorName])
       IN  /\ denied' = [denied EXCEPT ![p] = @ \/ ~admitted]
           /\ IF RateCheckPasses(admitted)
              THEN /\ pc' = [pc EXCEPT ![p] = "validate"]
                   /\ UNCHANGED <<exc, fails, locals, fetchFailed>>
              ELSE Raise(p, Error("RuntimeError", "Too many requests in a short time.",
                                  bodyRuns[p]))
    /\ UNCHANGED <<now, budget, config, requests, op, url, retry, outcome, crNow,
                   calls, bodyRuns, logs>>

\* a body that skips the validation
UrlAcceptedAny(u) == TRUE

\* if not validate_url(website_url): raise ValueError("Invalid URL format.")
UrlAccepted(u) == validate_url(u)

Validate(p) ==
    /\ pc[p] = "validate"
    /\ IF UrlAccepted(url[p])
       THEN /\ pc' = [pc EXCEPT ![p] = "extract"]
            /\ UNCHANGED <<exc, fails, locals, fetchFailed>>
       ELSE Raise(p, Error("ValueError", "Invalid URL format.", bodyRuns[p]))
    /\ UNCHANGED <<now, budget, config, requests, op, url, retry, outcome, crNow,
                   calls, bodyRuns, denied, logs>>

\* an extraction that lets the failure of the fetch escape
extract_website_data_raising(fetched) ==
    [raised |-> ~fetched,
     value  |-> IF fetched THEN [k \in WebsiteKeys |-> "website"] ELSE EmptyMap]

\* DataExtractor.extract_website_data: the try returns the four fields, the
\* except logs the error and returns {}
extract_website_data(fetched) ==
    [raised |-> FALSE,
     value  |-> IF fetched THEN [k \in WebsiteKeys |-> "website"] ELSE EmptyMap]

Extract(p) ==
    /\ pc[p] = "extract"
    /\ \E fetched \in BOOLEAN :
          LET r == extract_website_data(fetched)
          IN  IF r.raised
              THEN Raise(p, Error("ExtractionError", "fetch failed", bodyRuns[p]))
              ELSE /\ website_data' = [website_data EXCEPT ![p] = r.value]
                   /\ fetchFailed' = [fetchFailed EXCEPT ![p] = ~fetched]
                   /\ pc' = [pc EXCEPT ![p] = "name"]
                   /\ UNCHANGED <<exc, fails, company_name, tasks, enriched_data>>
    /\ calls' = [calls EXCEPT ![p] = @ \cup {"extract"}]
    /\ reqLog' = Latest(Append(reqLog, now), max_requests + 1)
    /\ UNCHANGED <<now, budget, config, requests, op, url, retry, outcome, crNow,
                   bodyRuns, denied, callLog, over, crWindow, arrival>>

\* _extract_company_name: validates again, then cuts the host out of the URL
ExtractCompanyName(p) ==
    /\ pc[p] = "name"
    /\ IF validate_url(url[p])
       THEN /\ company_name' = [company_name EXCEPT ![p] = company_name_of(url[p])]
            /\ pc' = [pc EXCEPT ![p] = "enrich"]
            /\ UNCHANGED <<exc, fails, website_data, tasks, enriched_data, fetchFailed>>
       ELSE Raise(p, Error("ValueError", "Invalid website URL", bodyRuns[p]))
    /\ UNCHANGED <<now, budget, config, requests, op, url, retry, outcome, crNow,
                   calls, bodyRuns, denied, logs>>

(***************************************************************************)
(* DataExtractor.enrich_with_apis: three futures on a thread pool; the     *)
(* with block leaves only when every future has resolved.                  *)
(***************************************************************************)
\* executor.submit, three times
EnrichSubmit(p) ==
    /\ pc[p] = "enrich"
    /\ tasks' = [tasks EXCEPT ![p] = [s \in EnrichSources |-> "running"]]
    /\ calls' = [calls EXCEPT ![p] = @ \cup {"enrich"}]
    /\ pc' = [pc EXCEPT ![p] = "join"]
    /\ UNCHANGED <<now, budget, config, requests, op, url, retry, exc, outcome,
                   crNow, website_data, company_name, enriched_data, bodyRuns, fails,
                   denied, fetchFailed, logs>>

\* one source's call returns or raises, in any order with the others
TaskFinish(p, s, r) ==
    /\ pc[p] = "join"
    /\ tasks[p][s] = "running"
    /\ tasks' = [tasks EXCEPT ![p][s] = r]
    /\ arrival' = [arrival EXCEPT ![p] = Append(@, s)]
    /\ UNCHANGED <<now, budget, config, requests, pc, op, url, retry, exc,
                   outcome, crNow, website_data, company_name, enriched_data, calls,
                   bodyRuns, fails, denied, fetchFailed, reqLog, callLog, over,
                   crWindow>>

\* the first source, in the order of the dict, whose future raised
FirstRaised(t) ==
    EnrichOrder[CHOOSE i \in DOMAIN EnrichOrder :
                   /\ t[EnrichOrder[i]] = "raised"
                   /\ \A j \in 1..(i - 1) : t[EnrichOrder[j]] # "raised"]

\* what the call of source s returns
SourceResult(s) == s

\* where source s stands in the dict of futures
PositionOf(s) == CHOOSE i \in DOMAIN EnrichOrder : EnrichOrder[i] = s

\* a dict filled in the order the tasks ended: the k-th key gets the result
\* that came k-th
CollectByArrival(order) ==
    [s \in EnrichSources |-> SourceResult(order[PositionOf(s)])]

\* {k: v.result() for k, v in futures.items()}: each key gets the result of
\* its own future, whatever the order the tasks ended in
Collect(order) == [s \in EnrichSources |-> SourceResult(s)]

\* a join that does not wait
AllResolvedAny(t) == TRUE

\* every future has a result or an exception
AllResolved(t) == \A s \in EnrichSources : t[s] \in {"returned", "raised"}

\* {k: v.result() for k, v in futures.items()}, then the end of the with block
EnrichJoin(p) ==
    /\ pc[p] = "join"
    /\ AllResolved(tasks[p])
    /\ IF \E s \in EnrichSources : tasks[p][s] = "raised"
       THEN /\ Raise(p, Error("EnrichmentError", FirstRaised(tasks[p]), bodyRuns[p]))
            /\ arrival' = [arrival EXCEPT ![p] = <<>>]
       ELSE /\ enriched_data' = [enriched_data EXCEPT ![p] = Collect(arrival[p])]
            /\ tasks' = [tasks EXCEPT ![p] = NoTasks]
            /\ pc' = [pc EXCEPT ![p] = "aggregate"]
            /\ UNCHANGED <<exc, fails, website_data, company_name, fetchFailed,
                           arrival>>
    /\ UNCHANGED <<now, budget, config, requests, op, url, retry, outcome, crNow,
                   calls, bodyRuns, denied, reqLog, callLog, over, crWindow>>

(***************************************************************************)
(* CompanyData(name=company_name, **website_data, **enriched_data) and the *)
(* stages after it.                                                        *)
(***************************************************************************)
\* a construction that accepts whatever keywords it is given
KwargsErrorNone(w, e) == None

\* a keyword given twice, a keyword that is no field, or a field not given
KwargsError(w, e) ==
    IF (DOMAIN w \cap DOMAIN e) # {} \/ "name" \in (DOMAIN w \cup DOMAIN e)
    THEN "got multiple values for keyword argument"
    ELSE IF ~((DOMAIN w \cup DOMAIN e) \subseteq CompanyFields)
    THEN "got an unexpected keyword argument"
    ELSE IF (DOMAIN w \cup DOMAIN e \cup {"name"}) # CompanyFields
    THEN "missing required positional arguments"
    ELSE None

\* the first of the keywords S to reach the call
FirstKey(S) ==
    KeyOrder[CHOOSE i \in DOMAIN KeyOrder :
                /\ KeyOrder[i] \in S
                /\ \A j \in 1..(i - 1) : KeyOrder[j] \notin S]

\* the keywords the TypeError names: the first one given twice, or the first
\* that is no field, or every field not given
KwargsNames(w, e) ==
    LET given  == DOMAIN w \cup DOMAIN e
        twice  == (DOMAIN w \cap DOMAIN e) \cup ({"name"} \cap given)
    IN  IF twice # {} THEN {FirstKey(twice)}
        ELSE IF ~(given \subseteq CompanyFields)
        THEN {FirstKey(given \ CompanyFields)}
        ELSE CompanyFields \ (given \cup {"name"})

\* the record the dataclass holds: the keywords it was given
CompanyData(name, w, e) ==
    [k \in {"name"} \cup DOMAIN w \cup DOMAIN e |->
        IF k = "name" THEN name ELSE IF k \in DOMAIN w THEN w[k] ELSE e[k]]

\* what process_company returns: the record and the results of three stages;
\* the bool of update_crm is dropped
Result(record, analysed, profiled, reported) ==
    [company_data |-> record,
     analysis     |-> IF analysed THEN "analysis" ELSE "{}",
     profile      |-> IF profiled THEN "profile" ELSE "",
     report_path  |-> IF reported THEN "path" ELSE ""]

\* the stages called after the record, and those of them that failed
StageCalls(analysed, profiled, reported, updated) ==
    {"analyze", "profile", "report", "crm"}
        \cup (IF analysed THEN {} ELSE {"analyze_failed"})
        \cup (IF profiled THEN {} ELSE {"profile_failed"})
        \cup (IF reported THEN {} ELSE {"report_failed"})
        \cup (IF updated THEN {} ELSE {"crm_failed"})

\* the record is built, or TypeError.  With a record: analyze_market_position,
\* generate_report and update_crm catch their exceptions and return {}, "" and
\* False; generate_company_profile catches those of the completion request,
\* but builds its prompt before the try, so a failure there leaves the body.
\* Otherwise the result dict is returned through the wrapper.
Aggregate(p) ==
    /\ pc[p] = "aggregate"
    /\ LET err == KwargsError(website_data[p], enriched_data[p])
       IN  IF err # None
           THEN /\ Raise(p, NamedError("TypeError", err,
                            KwargsNames(website_data[p], enriched_data[p]),
                            bodyRuns[p]))
                /\ UNCHANGED <<outcome, calls>>
           ELSE \E analysed \in BOOLEAN, prompted \in BOOLEAN, profiled \in BOOLEAN,
                   reported \in BOOLEAN, updated \in BOOLEAN :
                  IF ~prompted
                  THEN /\ ~profiled /\ reported /\ updated
                       /\ Raise(p, Error("PromptError", "_create_analysis_prompt",
                                         bodyRuns[p]))
                       /\ calls' = [calls EXCEPT ![p] = @ \cup
                                       {"analyze", "profile", "profile_failed"} \cup
                                       (IF analysed THEN {} ELSE {"analyze_failed"})]
                       /\ UNCHANGED outcome
                  ELSE /\ outcome' = [outcome EXCEPT ![p] = Returned(WrapperReturn(
                              Result(CompanyData(company_name[p], website_data[p],
                                                 enriched_data[p]),
                                     analysed, profiled, reported)))]
                       /\ calls' = [calls EXCEPT ![p] = @ \cup
                                       StageCalls(analysed, profiled, reported, updated)]
                       /\ pc' = [pc EXCEPT ![p] = "done"]
                       /\ UNCHANGED <<exc, fails, locals, fetchFailed>>
    /\ arrival' = [arrival EXCEPT ![p] = <<>>]
    /\ UNCHANGED <<now, budget, config, requests, op, url, retry, crNow,
                   bodyRuns, denied, reqLog, callLog, over, crWindow>>

Next ==
    \/ \E p \in Procs, u \in Urls : Call(p, u)
    \/ \E p \in Procs : BodyStart(p)
    \/ \E p \in Procs : CanRequestEnter(p)
    \/ \E p \in Procs : CanRequestPrune(p)
    \/ \E p \in Procs : CanRequestReturn(p)
    \/ \E p \in Procs : Validate(p)
    \/ \E p \in Procs : Extract(p)
    \/ \E p \in Procs : ExtractCompanyName(p)
    \/ \E p \in Procs : EnrichSubmit(p)
    \/ \E p \in Procs, s \in EnrichSources, r \in {"returned", "raised"} : TaskFinish(p, s, r)
    \/ \E p \in Procs : EnrichJoin(p)
    \/ \E p \in Procs : Aggregate(p)
    \/ \E p \in Procs : RetryCatch(p)
    \/ \E p \in Procs : SleepDone(p)
    \/ \E p \in Procs : Finish(p)
    \/ Tick

\* one thread calls process_company on a freshly constructed workflow, as
\* main() and the tests do
Spec == Init /\ [][Next]_vars

(***************************************************************************)
(* Two threads call process_company on one freshly constructed workflow.   *)
(* The futures of enrich_with_apis touch nothing the threads share, so     *)
(* here the whole call is one step of its thread.                          *)
(***************************************************************************)
InitConc ==
    /\ InitThreads
    /\ now = 0
    /\ budget = MaxConcCalls
    /\ threads = Procs
    /\ urls = {UrlExample}
    /\ max_attempts = DefaultMaxAttempts
    /\ delay = DefaultDelay
    /\ requests = EmptyMap

\* enrich_with_apis from submit to the end of the with block; t: how each
\* future resolved
Enrich(p, t) ==
    /\ pc[p] = "enrich"
    /\ calls' = [calls EXCEPT ![p] = @ \cup {"enrich"}]
    /\ IF \E s \in EnrichSources : t[s] = "raised"
       THEN Raise(p, Error("EnrichmentError", FirstRaised(t), bodyRuns[p]))
       ELSE /\ enriched_data' = [enriched_data EXCEPT ![p] = Collect(EnrichOrder)]
            /\ pc' = [pc EXCEPT ![p] = "aggregate"]
            /\ UNCHANGED <<exc, fails, website_data, company_name, tasks, fetchFailed>>
    /\ UNCHANGED <<now, budget, config, requests, op, url, retry, outcome, crNow,
                   bodyRuns, denied, logs>>

NextConc ==
    \/ \E p \in Procs, u \in Urls : Call(p, u)
    \/ \E p \in Procs : BodyStart(p)
    \/ \E p \in Procs : CanRequestEnter(p)
    \/ \E p \in Procs : CanRequestPrune(p)
    \/ \E p \in Procs : CanRequestReturn(p)
    \/ \E p \in Procs : Validate(p)
    \/ \E p \in Procs : Extract(p)
    \/ \E p \in Procs : ExtractCompanyName(p)
    \/ \E p \in Procs, t \in [EnrichSources -> {"returned", "raised"}] : Enrich(p, t)
    \/ \E p \in Procs : Aggregate(p)
    \/ \E p \in Procs : RetryCatch(p)
    \/ \E p \in Procs : SleepDone(p)
    \/ \E p \in Procs : Finish(p)
    \/ Tick

SpecConc == InitConc /\ [][NextConc]_vars

(***************************************************************************)
(* One thread calls process_company on a workflow whose limiter already    *)
(* holds timestamps: RateLimiter.requests is the limiter's public state,   *)
(* and process_company itself never appends to it.  The windows are the    *)
(* non-decreasing sequences of at most max_requests stamps 0 and 1, read   *)
(* at times around time_window later.                                      *)
(***************************************************************************)
LoadedWindows ==
    {[i \in 1..(c[1] + c[2]) |-> IF i <= c[1] THEN 0 ELSE 1] :
        c \in {d \in (0..max_requests) \X (0..max_requests) :
                  d[1] + d[2] <= max_requests}}

LoadedNow == (time_window - 1)..(time_window + 1)

\* another name of the limiter, and its window
OtherName == "linkedin"

OtherWindow == <<0, 1>>

\* the limiter's map: both names, or the other name alone
LoadedRequests ==
    {[n \in {ExtractorName, OtherName} |->
         IF n = ExtractorName THEN w ELSE OtherWindow] : w \in LoadedWindows}
    \cup {[n \in {OtherName} |-> OtherWindow]}

InitLoaded ==
    /\ InitThreads
    /\ now \in LoadedNow
    /\ budget = MaxLoadedCalls
    /\ threads = {"t1"}
    /\ urls = Urls
    /\ max_attempts = DefaultMaxAttempts
    /\ delay = DefaultDelay
    /\ requests \in LoadedRequests

SpecLoaded == InitLoaded /\ [][Next]_vars

(***************************************************************************)
(* The construction of the record and the stages after it, applied to maps *)
(* drawn from bounded sets: a thread stands at the CompanyData call with   *)
(* website_data and enriched_data over the key spaces below.               *)
(***************************************************************************)
WebsiteKeySpace ==
    {"name", "description", "industry", "products", "team", "social_links"}

EnrichKeySpace ==
    {"name", "description", "industry", "news", "social_media", "metrics",
     "crunchbase"}

WebsiteMaps == {[k \in D |-> "A"] : D \in SUBSET WebsiteKeySpace}

EnrichMaps == {[k \in D |-> "B"] : D \in SUBSET EnrichKeySpace}

InitMerge ==
    /\ now = 0
    /\ budget = 0
    /\ threads = {"t1"}
    /\ urls = {UrlExample}
    /\ max_attempts = DefaultMaxAttempts
    /\ delay = DefaultDelay
    /\ requests = [n \in {ExtractorName} |-> NewWindow]
    /\ pc = [p \in Procs |-> IF p \in threads THEN "aggregate" ELSE "idle"]
    /\ op = [p \in Procs |-> IF p \in threads THEN "process_company" ELSE None]
    /\ url = [p \in Procs |-> IF p \in threads THEN UrlExample ELSE <<>>]
    /\ attempt = [p \in Procs |-> 0]
    /\ wake = [p \in Procs |-> 0]
    /\ exc = [p \in Procs |-> NoError]
    /\ last_error = [p \in Procs |-> NoError]
    /\ outcome = [p \in Procs |-> NoOutcome]
    /\ crNow = [p \in Procs |-> 0]
    /\ \E w \in WebsiteMaps, e \in EnrichMaps :
          /\ website_data = [p \in Procs |-> IF p \in threads THEN w ELSE EmptyMap]
          /\ enriched_data = [p \in Procs |-> IF p \in threads THEN e ELSE EmptyMap]
    /\ company_name = [p \in Procs |->
                          IF p \in threads THEN company_name_of(UrlExample) ELSE <<>>]
    /\ tasks = [p \in Procs |-> NoTasks]
    /\ calls = [p \in Procs |->
                   IF p \in threads THEN {"can_request", "extract", "enrich"} ELSE {}]
    /\ bodyRuns = [p \in Procs |-> IF p \in threads THEN 1 ELSE 0]
    /\ fails = [p \in Procs |-> 0]
    /\ delays = [p \in Procs |-> <<>>]
    /\ denied = [p \in Procs |-> FALSE]
    /\ fetchFailed = [p \in Procs |-> FALSE]
    /\ over = [p \in Procs |-> FALSE]
    /\ reqLog = <<0>>
    /\ callLog = <<0>>
    /\ crWindow = [p \in Procs |-> <<>>]
    /\ arrival = [p \in Procs |-> <<>>]

NextMerge == \E p \in Procs : Aggregate(p)

SpecMerge == InitMerge /\ [][NextMerge]_vars

(***************************************************************************)
(* Termination: a fresh workflow and one caller, or a thread that stands   *)
(* at the CompanyData call with maps that make a complete record; every   *)
(* step that can be taken is taken in the end (each collaborator call and  *)
(* each enrichment task returns or raises, each time.sleep ends).          *)
(***************************************************************************)
InitLive ==
    \/ /\ InitThreads
       /\ now = 0
       /\ budget = MaxLiveCalls
       /\ threads = {"t1"}
       /\ urls = Urls
       /\ max_attempts = DefaultMaxAttempts
       /\ delay = DefaultDelay
       /\ requests = EmptyMap
    \/ /\ InitMerge
       /\ \A p \in threads : KwargsError(website_data[p], enriched_data[p]) = None

\* thread p goes from the statement at to one of those that follow it
Leaves(p, at, to) ==
    /\ pc[p] = at
    /\ pc' \in {[pc EXCEPT ![p] = t] : t \in to}

\* each statement that can run does run, each call into a collaborator
\* comes back, and the clock goes on while a thread sleeps; the two checks of
\* the URL are named by the statements they lead to
Fairness ==
    /\ WF_vars(\E p \in Procs : BodyStart(p))
    /\ WF_vars(\E p \in Procs : CanRequestEnter(p))
    /\ WF_vars(\E p \in Procs : CanRequestPrune(p))
    /\ WF_vars(\E p \in Procs : CanRequestReturn(p))
    /\ WF_pc(\E p \in Procs : Leaves(p, "validate", {"extract", "raised"}))
    /\ WF_vars(\E p \in Procs : Extract(p))
    /\ WF_pc(\E p \in Procs : Leaves(p, "name", {"enrich", "raised"}))
    /\ WF_vars(\E p \in Procs : EnrichSubmit(p))
    /\ WF_vars(\E p \in Procs, s \in EnrichSources, r \in {"returned", "raised"} :
                  TaskFinish(p, s, r))
    /\ WF_vars(\E p \in Procs : EnrichJoin(p))
    /\ WF_vars(\E p \in Procs : Aggregate(p))
    /\ WF_vars(\E p \in Procs : RetryCatch(p))
    /\ WF_vars(\E p \in Procs : SleepDone(p))
    /\ WF_vars(Tick)

SpecLive == InitLive /\ [][Next]_vars /\ Fairness

(***************************************************************************)
(* retry_on_failure alone, around an operation that returns a value or     *)
(* raises on each call, for every max_attempts and delay of the bounds.    *)
(***************************************************************************)
FuncValues == {"a", "b"}

InitRetry ==
    /\ InitThreads
    /\ now = 0
    /\ budget = MaxRetryCalls
    /\ threads = {"t1"}
    /\ urls = {}
    /\ max_attempts \in 1..MaxAttemptsBound
    /\ delay \in 0..MaxDelayBound
    /\ requests = EmptyMap

\* a caller invokes the wrapped operation: the wrapper's loop starts
CallFunc(p) ==
    /\ p \in threads
    /\ pc[p] = "idle"
    /\ budget > 0
    /\ budget' = budget - 1
    /\ pc' = [pc EXCEPT ![p] = "func"]
    /\ op' = [op EXCEPT ![p] = "func"]
    /\ attempt' = [attempt EXCEPT ![p] = 0]
    /\ last_error' = [last_error EXCEPT ![p] = NoError]
    /\ UNCHANGED <<now, config, requests, url, wake, exc, outcome, crNow, locals,
                   calls, bodyRuns, fails, delays, denied, fetchFailed, logs>>

\* the operation returns v, and the wrapper returns it
FuncReturn(p, v) ==
    /\ pc[p] = "func"
    /\ bodyRuns' = [bodyRuns EXCEPT ![p] = @ + 1]
    /\ outcome' = [outcome EXCEPT ![p] =
                      Returned(WrapperReturn([val |-> v, run |-> bodyRuns[p] + 1]))]
    /\ pc' = [pc EXCEPT ![p] = "done"]
    /\ UNCHANGED <<now, budget, config, requests, op, url, retry, exc, crNow, locals,
                   calls, fails, denied, fetchFailed, logs>>

\* the operation raises
FuncRaise(p) ==
    /\ pc[p] = "func"
    /\ bodyRuns' = [bodyRuns EXCEPT ![p] = @ + 1]
    /\ Raise(p, Error("OpError", "failed", bodyRuns[p] + 1))
    /\ UNCHANGED <<now, budget, config, requests, op, url, retry, outcome, crNow,
                   calls, denied, logs>>

NextRetry ==
    \/ \E p \in Procs : CallFunc(p)
    \/ \E p \in Procs, v \in FuncValues : FuncReturn(p, v)
    \/ \E p \in Procs : FuncRaise(p)
    \/ \E p \in Procs : RetryCatch(p)
    \/ \E p \in Procs : SleepDone(p)
    \/ \E p \in Procs : Finish(p)
    \/ Tick

SpecRetry == InitRetry /\ [][NextRetry]_vars

(***************************************************************************)
(* The claims.                                                             *)
(***************************************************************************)
\* the stages that follow the rate check and the validation
LaterStages == {"extract", "enrich", "analyze", "profile", "report", "crm"}

\* C1: when exactly max_requests admitted calls, each followed by its
\* extraction request, lie within time_window of a can_request call, that
\* call returns false (the thread does not go on to the validation).
C1_DeniedAfterMaxRequests ==
    \A p \in Procs :
        pc[p] = "validate" => Within(reqLog, crNow[p]) # max_requests

\* C2: while two invocations run concurrently, the extraction requests
\* admitted within one time_window never exceed max_requests.
C2_ConcurrentNoOvershoot ==
    (\A p \in Procs : pc[p] # "idle") => Within(reqLog, now) <= max_requests

\* C3: an invocation that fails with the validation error has called neither
\* can_request nor the extraction.
C3_ValidationBeforeRateLimiter ==
    \A p \in Procs :
        (pc[p] = "raised" /\ exc[p].type = "ValueError")
            => calls[p] \cap {"can_request", "extract"} = {}

\* C4: for a URL validate_url rejects, process_company issues no extraction
\* or later stage, never returns a result, and what reaches the caller after
\* the retry wrapper is a ValueError.
C4_RejectedUrlRaisesValueError ==
    \A p \in Procs :
        (op[p] = "process_company" /\ ~validate_url(url[p]))
            => /\ calls[p] \cap LaterStages = {}
               /\ outcome[p].kind # "returned"
               /\ pc[p] = "raised" => exc[p].type = "ValueError"
               /\ pc[p] = "done" => /\ outcome[p].kind = "raised"
                                    /\ outcome[p].error.type = "ValueError"

C4_Witness ==
    \E p \in Procs :
        /\ pc[p] = "done"
        /\ url[p] = UrlNotAUrl
        /\ outcome[p].kind = "raised"
        /\ outcome[p].error.type = "ValueError"
        /\ bodyRuns[p] = max_attempts

\* C5: once the limiter has not admitted "DataExtractor" in an invocation,
\* the invocation calls no extraction or later stage, returns no result, and
\* ends with the RuntimeError of the rate limit.
C5_DenialFailsTheCall ==
    \A p \in Procs :
        denied[p]
            => /\ calls[p] \cap LaterStages = {}
               /\ outcome[p].kind # "returned"
               /\ pc[p] = "done" => /\ outcome[p].kind = "raised"
                                    /\ outcome[p].error.type = "RuntimeError"

\* C6: a call with a valid URL that max_requests such calls precede within
\* time_window issues no extraction and ends with RuntimeError.
C6_RateLimitTriggers ==
    \A p \in Procs :
        over[p]
            => /\ "extract" \notin calls[p]
               /\ pc[p] = "done" => /\ outcome[p].kind = "raised"
                                    /\ outcome[p].error.type = "RuntimeError"

\* C7: after a validation failure or a rate-limit denial the body has run
\* exactly once, and the wrapper neither sleeps nor runs it again.
C7_ValidationAndDenialNotRetried ==
    \A p \in Procs :
        (pc[p] \in {"raised", "sleep", "done"}
            /\ exc[p].type \in {"ValueError", "RuntimeError"})
            => /\ bodyRuns[p] = 1
               /\ delays[p] = <<>>
               /\ pc[p] # "sleep"

\* C8: an operation that fails k < max_attempts times and then succeeds has
\* been called k + 1 times, the wrapper returns the value of the last call,
\* and the sleeps were delay * 1, ..., delay * k.
C8_SucceedsAfterKFailures ==
    \A p \in Procs :
        (op[p] = "func" /\ pc[p] = "done" /\ outcome[p].kind = "returned")
            => /\ fails[p] < max_attempts
               /\ bodyRuns[p] = fails[p] + 1
               /\ outcome[p].value.run = bodyRuns[p]
               /\ outcome[p].value.val \in FuncValues
               /\ delays[p] = [i \in 1..fails[p] |-> delay * i]

C8_Witness ==
    \E p \in Procs :
        /\ op[p] = "func"
        /\ pc[p] = "done"
        /\ outcome[p].kind = "returned"
        /\ max_attempts = MaxAttemptsBound
        /\ fails[p] = max_attempts - 1
        /\ delay = MaxDelayBound

\* C9: an operation that fails on max_attempts calls in a row has been called
\* max_attempts times, max_attempts - 1 sleeps were made (none after the last
\* failure), and the caller gets the error of the last call, unchanged.
C9_ExhaustionPropagatesLast ==
    \A p \in Procs :
        (op[p] = "func" /\ pc[p] = "done" /\ outcome[p].kind = "raised")
            => /\ bodyRuns[p] = max_attempts
               /\ fails[p] = max_attempts
               /\ outcome[p].error = Error("OpError", "failed", max_attempts)
               /\ outcome[p].error = exc[p]
               /\ delays[p] = [i \in 1..(max_attempts - 1) |-> delay * i]
               /\ now = wake[p]

C9_Witness ==
    \E p \in Procs :
        /\ op[p] = "func"
        /\ pc[p] = "done"
        /\ outcome[p].kind = "raised"
        /\ max_attempts = MaxAttemptsBound
        /\ delay = MaxDelayBound

RaisedSources(t) == {s \in EnrichSources : t[s] = "raised"}

\* C11: when exactly one enrichment source has failed and the others have
\* succeeded, the body goes on to the aggregation, the failed source
\* contributing the empty map and the others their data.
C11_SourceFailureTolerated ==
    [][\A p \in Procs :
          (/\ pc[p] = "join"
           /\ AllResolved(tasks[p])
           /\ Cardinality(RaisedSources(tasks[p])) = 1
           /\ pc'[p] # "join")
              => /\ pc'[p] = "aggregate"
                 /\ \A s \in EnrichSources :
                       enriched_data'[p][s] =
                           IF s \in RaisedSources(tasks[p]) THEN EmptyMap ELSE s]_vars

\* C12: an enrichment source is called only when the limiter has been asked
\* about that source's name, so that a window of that name exists.
C12_SourcesRateLimited ==
    \A p \in Procs : \A s \in EnrichSources :
        tasks[p][s] # "none" => s \in DOMAIN requests

\* C13: the construction of the record never fails for a key given twice;
\* the record it gives holds the enrichment value of every enrichment key and
\* the name supplied by the caller.
C13_CollisionTakesEnrichment ==
    [][\A p \in Procs :
          (pc[p] = "aggregate" /\ pc'[p] # "aggregate")
              => /\ pc'[p] = "raised"
                    => exc'[p].msg # "got multiple values for keyword argument"
                 /\ pc'[p] = "done"
                    => LET r == outcome'[p].value.company_data
                       IN  /\ r["name"] = company_name[p]
                           /\ \A k \in DOMAIN enriched_data[p] \ {"name"} :
                                 r[k] = enriched_data[p][k]]_vars

\* the required fields the two maps leave out
MissingFields(w, e) == CompanyFields \ ({"name"} \cup DOMAIN w \cup DOMAIN e)

\* C14: when the two maps leave out a required field, the construction fails
\* with an error that names exactly the fields left out, and no analysis is
\* called.
C14_AggregationErrorNamesMissing ==
    [][\A p \in Procs :
          (/\ pc[p] = "aggregate"
           /\ pc'[p] # "aggregate"
           /\ MissingFields(website_data[p], enriched_data[p]) # {})
              => /\ pc'[p] = "raised"
                 /\ exc'[p].names = MissingFields(website_data[p], enriched_data[p])
                 /\ "analyze" \notin calls'[p]]_vars

\* the stages after the aggregation
DownstreamStages == {"analyze", "profile", "report", "crm"}

\* C15: once the record is complete, every downstream stage is called
\* whatever the others did, and process_company returns a result that holds
\* the record.
C15_DownstreamFailureNotFatal ==
    [][\A p \in Procs :
          (/\ pc[p] = "aggregate"
           /\ pc'[p] # "aggregate"
           /\ KwargsError(website_data[p], enriched_data[p]) = None)
              => /\ pc'[p] = "done"
                 /\ outcome'[p].kind = "returned"
                 /\ outcome'[p].value.company_data =
                       CompanyData(company_name[p], website_data[p], enriched_data[p])
                 /\ DownstreamStages \subseteq calls'[p]]_vars

\* the failures a caller can read off the returned dict
ReportedFailures(v) ==
    (IF v.analysis = "{}" THEN {"analyze_failed"} ELSE {})
        \cup (IF v.profile = "" THEN {"profile_failed"} ELSE {})
        \cup (IF v.report_path = "" THEN {"report_failed"} ELSE {})

\* C16: the stages that failed in a returned invocation are exactly those the
\* returned dict shows as failed.
C16_OutcomeTellsFailedStages ==
    \A p \in Procs :
        (pc[p] = "done" /\ outcome[p].kind = "returned" /\ op[p] = "process_company")
            => ReportedFailures(outcome[p].value) =
                  calls[p] \cap {"analyze_failed", "profile_failed",
                                 "report_failed", "crm_failed"}

IsSuffix(a, b) == \E k \in 0..Len(b) : a = SubSeq(b, k + 1, Len(b))

\* C18: no step adds a timestamp to a window: a window that exists keeps a
\* suffix of its entries, the windows of the names can_request was not called
\* with stay as they are, and a window is created empty and only for the name
\* asked about; so neither an admitted nor a denied check is charged.
C18_CheckDoesNotCommit ==
    [][/\ DOMAIN requests \subseteq DOMAIN requests'
       /\ \A n \in DOMAIN requests' :
             IF n \in DOMAIN requests
             THEN /\ IsSuffix(requests'[n], requests[n])
                  /\ n # ExtractorName => requests'[n] = requests[n]
             ELSE n = ExtractorName /\ requests'[n] = <<>>]_vars

C18_Witness ==
    \E p \in Procs :
        /\ denied[p]
        /\ pc[p] = "validate"
        /\ Len(requests[ExtractorName]) < Len(crWindow[p])
        /\ requests[OtherName] = OtherWindow

\* C19: when can_request called at time t has pruned, the window holds
\* exactly the entries it found with t - ts <= time_window, in their order;
\* it returns true with fewer than max_requests of them and false with
\* max_requests.
C19_PruneExactlyExpired ==
    \A p \in Procs :
        (\/ pc[p] \in {"cr_ret", "validate"}
         \/ pc[p] = "raised" /\ exc[p].type = "RuntimeError")
            => LET w == requests[ExtractorName]
                   Keep(ts) == crNow[p] - ts <= time_window
               IN  /\ w = SelectSeq(crWindow[p], Keep)
                   /\ pc[p] = "validate" => Len(w) < max_requests
                   /\ pc[p] = "raised" => Len(w) = max_requests

C19_Witness ==
    \E p \in Procs :
        /\ pc[p] = "validate"
        /\ crWindow[p] # <<>>
        /\ crNow[p] - crWindow[p][1] > time_window
        /\ requests[ExtractorName] # <<>>
        /\ crNow[p] - requests[ExtractorName][1] = time_window

\* C20: the body reaches the CompanyData call only from the join and with
\* every enrichment task resolved, and an enrichment task exists only while
\* the body is in enrich_with_apis, after the extraction of the same attempt
\* has returned.
C20_JoinAllBeforeAggregation ==
    [][\A p \in Procs :
          /\ (pc'[p] = "aggregate" /\ pc[p] # "aggregate")
                => /\ pc[p] = "join"
                   /\ \A s \in EnrichSources : tasks[p][s] \in {"returned", "raised"}
          /\ (\E s \in EnrichSources : tasks'[p][s] # "none")
                => /\ pc'[p] = "join"
                   /\ fetchFailed'[p] \/ website_data'[p] # EmptyMap]_vars

C20_Witness ==
    \E p \in Procs :
        /\ pc[p] = "aggregate"
        /\ DOMAIN enriched_data[p] = EnrichSources
        /\ tasks[p] = NoTasks

\* C21: whatever the order in which the three enrichment tasks ended, the
\* map enrich_with_apis returns gives every source its own result.
C21_ResultIndependentOfArrival ==
    \A p \in Procs :
        (pc[p] = "aggregate" /\ arrival[p] # <<>>)
            => /\ Range(arrival[p]) = EnrichSources
               /\ enriched_data[p] = [s \in EnrichSources |-> SourceResult(s)]

C21_Witness ==
    \E p \in Procs :
        /\ pc[p] = "aggregate"
        /\ arrival[p] = <<"news", "linkedin", "crunchbase">>
        /\ DOMAIN enriched_data[p] = EnrichSources

\* C22: every call of process_company ends, with a returned result or a
\* raised error and after one to max_attempts executions of the body; the
\* body is never executed more than max_attempts times, and once the caller
\* has its outcome neither the outcome nor the count of executions changes
\* until the call is over.
C22_TerminatesOnce ==
    /\ [][\A p \in Procs :
             /\ bodyRuns'[p] <= max_attempts
             /\ pc'[p] = "done"
                   => /\ outcome'[p].kind \in {"returned", "raised"}
                      /\ bodyRuns'[p] >= 1
             /\ (outcome[p].kind # None /\ pc'[p] # "idle")
                   => /\ outcome'[p] = outcome[p]
                      /\ bodyRuns'[p] = bodyRuns[p]
                      /\ pc'[p] = "done"]_vars
    /\ \A p \in Procs : [](pc[p] # "idle" => <>(pc[p] = "done"))

C22_Witness ==
    \E p \in Procs :
        /\ pc[p] = "done"
        /\ op[p] = "process_company"
        /\ outcome[p].kind = "returned"
        /\ bodyRuns[p] = 1
        /\ fails[p] = 0

====
